---- MODULE Spec2Model ----
(***************************************************************************)
(* Model of scripts/google-oauth-refresh.py: the OAuth authorization-code   *)
(* flow with a loopback callback listener (OAuthCallbackHandler.do_GET),    *)
(* get_credentials() and main().                                            *)
(*                                                                          *)
(* Text is modelled as sequences of one-piece strings, so that strip(),     *)
(* parse_qs(), json.loads() and the f-string rendering of a dict are        *)
(* computed rather than assumed.                                            *)
(***************************************************************************)
EXTENDS Integers, Sequences, FiniteSets, TLC

VARIABLES pc, client_id, client_secret, auth_code, server, browser,
          handled, responses, writes, events, out, posted, reply, tokens,
          exit_status

vars == <<pc, client_id, client_secret, auth_code, server, browser,
          handled, responses, writes, events, out, posted, reply, tokens,
          exit_status>>

(* ---------------------------- bounds ---------------------------------- *)

\* number of inbound connections the listener is offered in one run
MaxRequests == 3

(* ------------------------- Python values ------------------------------ *)

\* Python's None
PyNone == [t |-> "None"]

\* a Python str holding the pieces s
PyStr(s) == [t |-> "str", s |-> s]

\* truthiness of None / str, as used by `if not x`
Truthy(v) == v.t = "str" /\ v.s # <<>>

(* ---------------------------- constants ------------------------------- *)

AUTH_URI == "https://accounts.google.com/o/oauth2/auth"

TOKEN_URI == "https://oauth2.googleapis.com/token"

REDIRECT_URI == "http://localhost:8080"

SCOPES == <<"https://www.googleapis.com/auth/adwords",
            "https://www.googleapis.com/auth/spreadsheets">>

(* --------------------------- str.strip() ------------------------------ *)

RECURSIVE LStrip(_)
LStrip(s) == IF s # <<>> /\ Head(s) = " " THEN LStrip(Tail(s)) ELSE s

RECURSIVE RStrip(_)
RStrip(s) == IF s # <<>> /\ s[Len(s)] = " "
             THEN RStrip(SubSeq(s, 1, Len(s) - 1)) ELSE s

Strip(s) == RStrip(LStrip(s))

(* ------------------------ urllib.parse.parse_qs ----------------------- *)

\* A query string is the sequence of its name=value fields, each <<name, value>>.
\* parse_qs (keep_blank_values=False) drops the fields whose value is blank
\* and maps every remaining name to the list of its values, in order.
NonBlank(q) == SelectSeq(q, LAMBDA f : f[2] # "")

RECURSIVE ValuesOf(_, _)
ValuesOf(q, name) ==
    IF q = <<>> THEN <<>>
    ELSE IF Head(q)[1] = name THEN <<Head(q)[2]>> \o ValuesOf(Tail(q), name)
         ELSE ValuesOf(Tail(q), name)

parse_qs(q) ==
    LET nb == NonBlank(q)
        names == {nb[i][1] : i \in DOMAIN nb}
    IN  [n \in names |-> ValuesOf(nb, n)]

(* ----------------------------- json.loads ----------------------------- *)

\* A response body is a sequence of lexical pieces: the punctuation
\* "{", "}", ":", ",", the quote "\"", the blank " ", the literal "null",
\* and any other piece is the text inside a string literal.
\* A decoded object is an insertion-ordered list of <<key, value>> (a dict).

\* dict[k] = v : a key already present keeps its position, takes the new value
DictSet(d, k, v) ==
    IF \E i \in DOMAIN d : d[i][1] = k
    THEN [i \in DOMAIN d |-> IF d[i][1] = k THEN <<k, v>> ELSE d[i]]
    ELSE Append(d, <<k, v>>)

\* dict.get(k) with the default None
DictGet(d, k) ==
    IF \E i \in DOMAIN d : d[i][1] = k
    THEN (d[CHOOSE i \in DOMAIN d : d[i][1] = k])[2]
    ELSE PyNone

JsonError == [ok |-> FALSE, val |-> <<>>]

Punct == {"{", "}", ":", ",", "\"", " ", "null"}

\* members of an object, after the opening brace: t is what is left to read
RECURSIVE ParseMembers(_, _)
ParseMembers(t, d) ==
    IF Len(t) >= 7 /\ t[1] = "\"" /\ t[2] \notin Punct /\ t[3] = "\""
       /\ t[4] = ":" /\ t[5] = "\"" /\ t[6] \notin Punct /\ t[7] = "\""
    THEN LET d2 == DictSet(d, t[2], PyStr(<<t[6]>>))
             r  == SubSeq(t, 8, Len(t))
         IN  IF r = <<>> THEN [ok |-> TRUE, val |-> d2]
             ELSE IF Head(r) = "," /\ Len(r) > 1 THEN ParseMembers(Tail(r), d2)
             ELSE JsonError
    ELSE IF Len(t) >= 6 /\ t[1] = "\"" /\ t[2] \notin Punct /\ t[3] = "\""
       /\ t[4] = ":" /\ t[5] = "\"" /\ t[6] = "\""
    THEN LET d2 == DictSet(d, t[2], PyStr(<<>>))
             r  == SubSeq(t, 7, Len(t))
         IN  IF r = <<>> THEN [ok |-> TRUE, val |-> d2]
             ELSE IF Head(r) = "," /\ Len(r) > 1 THEN ParseMembers(Tail(r), d2)
             ELSE JsonError
    ELSE IF Len(t) >= 5 /\ t[1] = "\"" /\ t[2] \notin Punct /\ t[3] = "\""
       /\ t[4] = ":" /\ t[5] = "null"
    THEN LET d2 == DictSet(d, t[2], PyNone)
             r  == SubSeq(t, 6, Len(t))
         IN  IF r = <<>> THEN [ok |-> TRUE, val |-> d2]
             ELSE IF Head(r) = "," /\ Len(r) > 1 THEN ParseMembers(Tail(r), d2)
             ELSE JsonError
    ELSE JsonError

\* json.loads of a body holding one flat object; anything else does not decode
JsonLoads(b) ==
    LET t == SelectSeq(b, LAMBDA x : x # " ")
    IN  IF Len(t) >= 2 /\ t[1] = "{" /\ t[Len(t)] = "}"
        THEN IF Len(t) = 2 THEN [ok |-> TRUE, val |-> <<>>]
             ELSE ParseMembers(SubSeq(t, 2, Len(t) - 1), <<>>)
        ELSE JsonError

(* -------------------- str() of a dict, as in f"{tokens}" -------------- *)

ReprValue(v) == IF v.t = "None" THEN <<"None">> ELSE <<"'">> \o v.s \o <<"'">>

RECURSIVE ReprItems(_)
ReprItems(d) ==
    IF d = <<>> THEN <<>>
    ELSE <<"'", Head(d)[1], "'", ":", " ">> \o ReprValue(Head(d)[2])
         \o (IF Len(d) > 1 THEN <<",", " ">> ELSE <<>>) \o ReprItems(Tail(d))

PyRepr(d) == <<"{">> \o ReprItems(d) \o <<"}">>

(* ------------------------ urllib.parse.urlencode ---------------------- *)

\* quote_plus on the pieces of a value: a blank becomes "+"
QuotePlus(s) == [i \in DOMAIN s |-> IF s[i] = " " THEN "+" ELSE s[i]]

\* f"{AUTH_URI}?{urlencode(auth_params)}"
AuthUrl(cid) ==
    <<AUTH_URI, "?", "client_id=">> \o QuotePlus(cid)
    \o <<"&redirect_uri=", REDIRECT_URI, "&response_type=code", "&scope=",
         SCOPES[1], "+", SCOPES[2], "&access_type=offline", "&prompt=consent">>

(* ------------------------------ inputs -------------------------------- *)

\* os.environ.get(NAME): None when unset, else the value
EnvValues == {PyNone, PyStr(<<>>), PyStr(<<"i", "d">>)}

\* what the user types at an input() prompt
InputValues == {<<>>, <<" ">>, <<" ", "i", "d", " ">>}

\* the query strings of the requests that may reach the listener
Queries ==
    { <<<<"code", "ABC123">>>>,
      <<<<"error", "access_denied">>>>,
      <<>>,
      <<<<"code", "">>>>,
      <<<<"code", "ABC123">>, <<"code", "XYZ789">>>>,
      <<<<"error", "access_denied">>, <<"code", "XYZ789">>>> }

Requests == [method : {"GET"}, query : Queries]
            \cup [method : {"POST"}, query : {<<<<"code", "ABC123">>>>}]

Q == "\""

\* the bodies the token endpoint may answer with
Bodies200 ==
    { <<"{", Q, "refresh_token", Q, ":", Q, "rtk_1", Q, "}">>,
      <<"{", Q, "access_token", Q, ":", " ", Q, "at", Q, ",", " ",
             Q, "refresh_token", Q, ":", " ", Q, "rtk_1", Q, "}">>,
      <<"{", Q, "access_token", Q, ":", Q, "at", Q, "}">>,
      <<"{", "}">>,
      <<"{", Q, "refresh_token", Q, ":", Q, Q, "}">>,
      <<"{", Q, "refresh_token", Q, ":", "null", "}">>,
      <<"<html>">> }

BodiesError ==
    { <<"{", Q, "error", Q, ":", Q, "invalid_grant", Q, "}">>, <<>> }

\* what urlopen(req) can do: an HTTP answer, or no answer at all (URLError)
Replies == [kind : {"http"}, status : {200}, body : Bodies200]
           \cup [kind : {"http"}, status : {400, 500}, body : BodiesError]
           \cup {[kind |-> "urlerror", status |-> 0, body |-> <<>>]}

NoReply == [kind |-> "none", status |-> 0, body |-> <<>>]

(* ------------------------------- state -------------------------------- *)

\* exit_status while the process is still running
Running == -1

Init ==
    /\ pc = "start"
    /\ client_id = PyNone
    /\ client_secret = PyNone
    /\ auth_code = PyNone
    /\ server = "none"
    /\ browser = FALSE
    /\ handled = <<>>
    /\ responses = <<>>
    /\ writes = 0
    /\ events = <<>>
    /\ out = <<>>
    /\ posted = <<>>
    /\ reply = NoReply
    /\ tokens = <<>>
    /\ exit_status = Running

\* sys.exit(n), or the interpreter ending on an uncaught exception
Exit(n) == pc' = "exit" /\ exit_status' = n

(* --------------------------- get_credentials -------------------------- *)

\* the value one credential ends with: the environment's, or the trimmed input
Credential(env, typed) == IF ~Truthy(env) THEN PyStr(Strip(typed)) ELSE env

get_credentials ==
    /\ pc = "start"
    /\ \E eid \in EnvValues, esec \in EnvValues,
          tid \in InputValues, tsec \in InputValues :
          /\ client_id' = Credential(eid, tid)
          /\ client_secret' = Credential(esec, tsec)
    /\ out' = out \o << <<"Google OAuth Refresh Token Generator">>,
                        <<"Scopes: Google Ads + Google Sheets">> >>
    /\ events' = Append(events, "credentials")
    /\ pc' = "check_credentials"
    /\ UNCHANGED <<auth_code, server, browser, handled, responses, writes,
                   posted, reply, tokens, exit_status>>

\* variant: the test demands that both values are missing
CheckCredentials_BothMissing ==
    /\ pc = "check_credentials"
    /\ IF ~Truthy(client_id) /\ ~Truthy(client_secret)
       THEN /\ out' = Append(out, <<"Error: Missing client ID or secret">>)
            /\ Exit(1)
       ELSE /\ pc' = "print_url"
            /\ UNCHANGED <<out, exit_status>>
    /\ UNCHANGED <<client_id, client_secret, auth_code, server, browser,
                   handled, responses, writes, events, posted, reply, tokens>>

CheckCredentials ==
    /\ pc = "check_credentials"
    /\ IF ~Truthy(client_id) \/ ~Truthy(client_secret)
       THEN /\ out' = Append(out, <<"Error: Missing client ID or secret">>)
            /\ Exit(1)
       ELSE /\ pc' = "print_url"
            /\ UNCHANGED <<out, exit_status>>
    /\ UNCHANGED <<client_id, client_secret, auth_code, server, browser,
                   handled, responses, writes, events, posted, reply, tokens>>

\* variant: the URL is not printed before the browser is launched
PrintUrl_Skipped ==
    /\ pc = "print_url"
    /\ pc' = "bind"
    /\ UNCHANGED <<client_id, client_secret, auth_code, server, browser,
                   handled, responses, writes, events, out, posted, reply,
                   tokens, exit_status>>

PrintUrl ==
    /\ pc = "print_url"
    /\ out' = out \o << <<"Opening browser for authorization...">>,
                        <<"If browser doesn't open, go to:">>,
                        AuthUrl(client_id.s) >>
    /\ events' = Append(events, "print_url")
    /\ pc' = "bind"
    /\ UNCHANGED <<client_id, client_secret, auth_code, server, browser,
                   handled, responses, writes, posted, reply, tokens,
                   exit_status>>

\* HTTPServer(("localhost", 8080), ...): binds, or raises OSError (port in use)
BindServer ==
    /\ pc = "bind"
    /\ \/ /\ server' = "bound"
          /\ events' = Append(events, "bind")
          /\ pc' = "open_browser"
          /\ UNCHANGED exit_status
       \/ /\ Exit(1)
          /\ UNCHANGED <<server, events>>
    /\ UNCHANGED <<client_id, client_secret, auth_code, browser, handled,
                   responses, writes, out, posted, reply, tokens>>

\* webbrowser.open(auth_url): best effort, its result is ignored
OpenBrowser ==
    /\ pc = "open_browser"
    /\ \E launched \in BOOLEAN : browser' = launched
    /\ events' = Append(events, "browser")
    /\ out' = Append(out, <<"Waiting for authorization...">>)
    /\ pc' = "wait"
    /\ UNCHANGED <<client_id, client_secret, auth_code, server, handled,
                   responses, writes, posted, reply, tokens, exit_status>>

(* --------------------------- callback listener ------------------------ *)

\* variant: the loop may service another request after a code was captured
LoopTest_KeepsListening ==
    /\ pc = "wait"
    /\ \/ pc' = "handle_request"
       \/ auth_code # PyNone /\ pc' = "close"
    /\ UNCHANGED <<client_id, client_secret, auth_code, server, browser,
                   handled, responses, writes, events, out, posted, reply,
                   tokens, exit_status>>

\* while auth_code is None:
LoopTest ==
    /\ pc = "wait"
    /\ pc' = IF auth_code = PyNone THEN "handle_request" ELSE "close"
    /\ UNCHANGED <<client_id, client_secret, auth_code, server, browser,
                   handled, responses, writes, events, out, posted, reply,
                   tokens, exit_status>>

\* OAuthCallbackHandler.do_GET: the new auth_code, the count of writes to it,
\* and the response sent
do_GET(query) ==
    LET parsed == parse_qs(query)
    IN  IF "code" \in DOMAIN parsed
        THEN [code |-> PyStr(<<parsed["code"][1]>>), wrote |-> 1,
              status |-> 200, page |-> <<"Authorization successful!">>]
        ELSE LET error == IF "error" \in DOMAIN parsed
                          THEN parsed["error"][1] ELSE "Unknown error"
             IN  [code |-> auth_code, wrote |-> 0,
                  status |-> 400,
                  page |-> <<"Authorization failed", "Error: ", error>>]

\* BaseHTTPRequestHandler answers a method without a do_<METHOD> with 501
Unsupported(method) ==
    [code |-> auth_code, wrote |-> 0, status |-> 501,
     page |-> <<"Unsupported method", method>>]

\* server.handle_request(): accept one connection and service it
HandleRequest ==
    /\ pc = "handle_request"
    /\ Len(handled) < MaxRequests
    /\ \E req \in Requests :
          LET r == IF req.method = "GET" THEN do_GET(req.query)
                   ELSE Unsupported(req.method)
          IN  /\ auth_code' = r.code
              /\ writes' = writes + r.wrote
              /\ responses' = Append(responses, [status |-> r.status, page |-> r.page])
              /\ handled' = Append(handled, req)
    /\ events' = Append(events, "request")
    /\ pc' = "wait"
    /\ UNCHANGED <<client_id, client_secret, server, browser, out, posted,
                   reply, tokens, exit_status>>

\* the user interrupts the blocking wait: KeyboardInterrupt leaves main()
Interrupt ==
    /\ pc = "handle_request"
    /\ Exit(130)
    /\ UNCHANGED <<client_id, client_secret, auth_code, server, browser,
                   handled, responses, writes, events, out, posted, reply,
                   tokens>>

\* variant: the listener is left open when the loop ends
ServerClose_Skipped ==
    /\ pc = "close"
    /\ events' = Append(events, "close")
    /\ out' = Append(out, <<"Exchanging code for tokens...">>)
    /\ pc' = "exchange"
    /\ UNCHANGED <<client_id, client_secret, auth_code, server, browser,
                   handled, responses, writes, posted, reply, tokens,
                   exit_status>>

\* server.server_close()
ServerClose ==
    /\ pc = "close"
    /\ server' = "closed"
    /\ events' = Append(events, "close")
    /\ out' = Append(out, <<"Exchanging code for tokens...">>)
    /\ pc' = "exchange"
    /\ UNCHANGED <<client_id, client_secret, auth_code, browser, handled,
                   responses, writes, posted, reply, tokens, exit_status>>

(* ----------------------------- token exchange ------------------------- *)

\* the form handed to urlencode() for the POST
TokenData ==
    [client_id |-> client_id, client_secret |-> client_secret,
     code |-> auth_code, grant_type |-> "authorization_code",
     redirect_uri |-> REDIRECT_URI]

\* variant: an HTTP error is reported and the POST is sent again
Exchange_Retries ==
    /\ pc = "exchange"
    /\ Len(posted) < 2
    /\ posted' = Append(posted, TokenData)
    /\ events' = Append(events, "post")
    /\ \E rep \in Replies :
          /\ reply' = rep
          /\ IF rep.kind = "urlerror"
             THEN Exit(1) /\ UNCHANGED <<out, tokens>>
             ELSE IF rep.status # 200
             THEN /\ out' = Append(out, <<"Error: ">> \o rep.body)
                  /\ UNCHANGED <<pc, exit_status, tokens>>
             ELSE IF ~JsonLoads(rep.body).ok
             THEN Exit(1) /\ UNCHANGED <<out, tokens>>
             ELSE /\ tokens' = JsonLoads(rep.body).val
                  /\ pc' = "check_token"
                  /\ UNCHANGED <<out, exit_status>>
    /\ UNCHANGED <<client_id, client_secret, auth_code, server, browser,
                   handled, responses, writes>>

\* urlopen(Request(TOKEN_URI, data, method="POST")) and json.loads of the answer
Exchange ==
    /\ pc = "exchange"
    /\ posted' = Append(posted, TokenData)
    /\ events' = Append(events, "post")
    /\ \E rep \in Replies :
          /\ reply' = rep
          /\ IF rep.kind = "urlerror"
             THEN Exit(1) /\ UNCHANGED <<out, tokens>>
             ELSE IF rep.status # 200
             THEN /\ out' = Append(out, <<"Error: ">> \o rep.body)
                  /\ Exit(1)
                  /\ UNCHANGED tokens
             ELSE IF ~JsonLoads(rep.body).ok
             THEN Exit(1) /\ UNCHANGED <<out, tokens>>
             ELSE /\ tokens' = JsonLoads(rep.body).val
                  /\ pc' = "check_token"
                  /\ UNCHANGED <<out, exit_status>>
    /\ UNCHANGED <<client_id, client_secret, auth_code, server, browser,
                   handled, responses, writes>>

\* variant: the test is `refresh_token is None`, so an empty token passes
CheckToken_IsNone ==
    /\ pc = "check_token"
    /\ LET refresh_token == DictGet(tokens, "refresh_token")
       IN  IF refresh_token = PyNone
           THEN /\ out' = out \o << <<"Error: No refresh token in response">>,
                                    <<"Response: ">> \o PyRepr(tokens) >>
                /\ events' = events
                /\ Exit(1)
           ELSE /\ out' = out \o << <<"SUCCESS! Here's your new refresh token:">>,
                                    refresh_token.s,
                                    <<"Update your .env file:">>,
                                    <<"GOOGLE_ADS_REFRESH_TOKEN=">> \o refresh_token.s >>
                /\ events' = Append(events, "print_token")
                /\ Exit(0)
    /\ UNCHANGED <<client_id, client_secret, auth_code, server, browser,
                   handled, responses, writes, posted, reply, tokens>>

\* variant: the error names no response
CheckToken_NoResponseLine ==
    /\ pc = "check_token"
    /\ LET refresh_token == DictGet(tokens, "refresh_token")
       IN  IF ~Truthy(refresh_token)
           THEN /\ out' = Append(out, <<"Error: No refresh token in response">>)
                /\ events' = events
                /\ Exit(1)
           ELSE /\ out' = out \o << <<"SUCCESS! Here's your new refresh token:">>,
                                    refresh_token.s,
                                    <<"Update your .env file:">>,
                                    <<"GOOGLE_ADS_REFRESH_TOKEN=">> \o refresh_token.s >>
                /\ events' = Append(events, "print_token")
                /\ Exit(0)
    /\ UNCHANGED <<client_id, client_secret, auth_code, server, browser,
                   handled, responses, writes, posted, reply, tokens>>

\* refresh_token = tokens.get("refresh_token"), and what main() prints of it
CheckToken ==
    /\ pc = "check_token"
    /\ LET refresh_token == DictGet(tokens, "refresh_token")
       IN  IF ~Truthy(refresh_token)
           THEN /\ out' = out \o << <<"Error: No refresh token in response">>,
                                    <<"Response: ">> \o PyRepr(tokens) >>
                /\ events' = events
                /\ Exit(1)
           ELSE /\ out' = out \o << <<"SUCCESS! Here's your new refresh token:">>,
                                    refresh_token.s,
                                    <<"Update your .env file:">>,
                                    <<"GOOGLE_ADS_REFRESH_TOKEN=">> \o refresh_token.s >>
                /\ events' = Append(events, "print_token")
                /\ Exit(0)
    /\ UNCHANGED <<client_id, client_secret, auth_code, server, browser,
                   handled, responses, writes, posted, reply, tokens>>

Next ==
    \/ get_credentials
    \/ CheckCredentials
    \/ PrintUrl
    \/ BindServer
    \/ OpenBrowser
    \/ LoopTest
    \/ HandleRequest
    \/ Interrupt
    \/ ServerClose
    \/ Exchange
    \/ CheckToken

Spec == Init /\ [][Next]_vars

(* ======================== properties of the run ========================= *)

\* the lines printed so far
Printed == {out[i] : i \in DOMAIN out}

\* sub occurs in line as a run of consecutive pieces
Contains(line, sub) ==
    \E i \in 0..(Len(line) - Len(sub)) : SubSeq(line, i + 1, i + Len(sub)) = sub

\* every occurrence of event b is preceded by an occurrence of event a
Before(a, b) ==
    \A j \in DOMAIN events :
        events[j] = b => \E i \in 1..(j - 1) : events[i] = a

\* the request is a redirect that carries an authorization code
CarriesCode(req) == req.method = "GET" /\ "code" \in DOMAIN parse_qs(req.query)

\* the request is a redirect whose query string has no code parameter at all
NoCodeParameter(req) ==
    req.method = "GET" /\ \A i \in DOMAIN req.query : req.query[i][1] # "code"

\* the one result the program keeps of the callbacks: the captured code, if any
Recorded ==
    IF auth_code # PyNone THEN [tag |-> "Success", value |-> auth_code.s]
    ELSE [tag |-> "Unset", value |-> <<>>]

\* the local port is held by a live process
PortHeld == server = "bound" /\ exit_status = Running

\* the token endpoint answered 200 with an object
Answered200 == reply.kind = "http" /\ reply.status = 200 /\ JsonLoads(reply.body).ok

\* the refresh_token of the answer, None when it has none
AnsweredToken == DictGet(JsonLoads(reply.body).val, "refresh_token")

(* ---- C1 ---- *)
\* C1: the listener services exactly one inbound request and is then closed,
\* whether it carried a code or not: no second request is ever accepted.
C1_OneRequestOnly == Len(handled) <= 1

(* ---- C2 ---- *)
\* C2: once a redirect without a code parameter has been received, the token
\* endpoint is never called and the process never exits with status 0.
C2_FailureNeverExchanges ==
    (\E i \in DOMAIN handled : NoCodeParameter(handled[i]))
        => posted = <<>> /\ exit_status # 0

(* ---- C3 ---- *)
\* C3: auth_code is written at most once, and exactly once in a run that gets
\* past the wait; the request that wrote it is the first one carrying a code
\* and the last one serviced; the code sent to the token endpoint is the slot's
\* value, read after every serviced request.
C3_SlotWrittenOnce ==
    /\ writes <= 1
    /\ (auth_code # PyNone) <=> (writes = 1)
    /\ pc \in {"close", "exchange", "check_token"} => writes = 1
    /\ auth_code # PyNone =>
          LET n == Len(handled) IN
          /\ n >= 1
          /\ CarriesCode(handled[n])
          /\ auth_code = PyStr(<<parse_qs(handled[n].query)["code"][1]>>)
          /\ \A i \in 1..(n - 1) : ~CarriesCode(handled[i])
    /\ \A i \in DOMAIN posted : posted[i].code = auth_code /\ auth_code # PyNone
    /\ \A i, j \in DOMAIN events :
          events[i] = "post" /\ events[j] = "request" => j < i

C3_Witness ==
    /\ auth_code = PyStr(<<"XYZ789">>)
    /\ Len(handled) >= 2
    /\ posted # <<>>

(* ---- C4 ---- *)
\* C4: after a GET is handled: with a code parameter in the query string the
\* answer is 200 and Success{code} is recorded; without one the answer is 400
\* and Failure{error} is recorded, error defaulting to "Unknown error".
C4_ResultRecorded ==
    (pc = "wait" /\ handled # <<>> /\ handled[Len(handled)].method = "GET") =>
        LET req == handled[Len(handled)]
            rsp == responses[Len(responses)]
            codes == ValuesOf(req.query, "code")
            errors == ValuesOf(req.query, "error")
        IN  IF codes # <<>>
            THEN /\ rsp.status = 200
                 /\ Recorded = [tag |-> "Success", value |-> <<codes[1]>>]
            ELSE /\ rsp.status = 400
                 /\ Recorded = [tag |-> "Failure",
                                value |-> <<IF errors # <<>> THEN errors[1]
                                            ELSE "Unknown error">>]

(* ---- C5 ---- *)
\* C5: the port is released before the token exchange is attempted, and it is
\* not held on any path that has left the listening step, whatever fails later.
C5_PortReleasedBeforeExchange ==
    /\ posted # <<>> => server = "closed"
    /\ pc \in {"exchange", "check_token"} => server = "closed"
    /\ pc \in {"exchange", "check_token", "exit"} => ~PortHeld
    /\ (pc = "exit" /\ "close" \notin {events[i] : i \in DOMAIN events})
          => posted = <<>>

C5_Witness ==
    /\ pc = "exit"
    /\ exit_status = 1
    /\ posted # <<>>
    /\ server = "closed"

(* ---- C6 ---- *)
\* C6: a 200 answer holding a non-empty refresh_token ends the run with status
\* 0 and the line GOOGLE_ADS_REFRESH_TOKEN=<that token>; that line is printed
\* in no other run (not for a missing, null or empty refresh_token).
C6_RefreshTokenLine ==
    /\ (pc = "exit" /\ Answered200 /\ Truthy(AnsweredToken)) =>
          /\ exit_status = 0
          /\ (<<"GOOGLE_ADS_REFRESH_TOKEN=">> \o AnsweredToken.s) \in Printed
    /\ (pc = "exit" /\ reply.kind = "http" /\ reply.status = 200
        /\ reply.body = <<"{", Q, "refresh_token", Q, ":", Q, "rtk_1", Q, "}">>)
          => <<"GOOGLE_ADS_REFRESH_TOKEN=", "rtk_1">> \in Printed
    /\ \A line \in Printed :
          (line # <<>> /\ line[1] = "GOOGLE_ADS_REFRESH_TOKEN=") =>
              /\ Answered200
              /\ Truthy(AnsweredToken)
              /\ line = <<"GOOGLE_ADS_REFRESH_TOKEN=">> \o AnsweredToken.s
              /\ Len(line) > 1

C6_Witness ==
    /\ pc = "exit"
    /\ exit_status = 0
    /\ <<"GOOGLE_ADS_REFRESH_TOKEN=", "rtk_1">> \in Printed

(* ---- C7 ---- *)
\* C7: an HTTP error status from the token endpoint ends the run with a
\* non-zero status after exactly one POST, the body printed, no token printed.
C7_HttpErrorNoRetry ==
    /\ Len(posted) <= 1
    /\ (reply.kind = "http" /\ reply.status # 200) =>
          /\ pc = "exit"
          /\ exit_status # 0
          /\ Len(posted) = 1
          /\ (<<"Error: ">> \o reply.body) \in Printed
          /\ \A line \in Printed :
                line # <<>> => line[1] # "GOOGLE_ADS_REFRESH_TOKEN="

C7_Witness ==
    /\ pc = "exit"
    /\ reply.kind = "http"
    /\ reply.status = 400
    /\ <<"Error: ", "{", Q, "error", Q, ":", Q, "invalid_grant", Q, "}">> \in Printed

(* ---- C8 ---- *)
\* the answer was 200 with an object that has no refresh_token field
LacksRefreshToken ==
    /\ Answered200
    /\ \A i \in DOMAIN JsonLoads(reply.body).val :
          JsonLoads(reply.body).val[i][1] # "refresh_token"

\* C8 (as stated): a 200 answer without the refresh_token field ends the run
\* with a non-zero status and a printed message that includes the raw body.
C8_RawBodyPrinted ==
    (pc = "exit" /\ LacksRefreshToken) =>
        /\ exit_status # 0
        /\ \E line \in Printed : Contains(line, reply.body)

\* C8 (amended): a 200 answer without the refresh_token field ends the run
\* with a non-zero status and the line "Response: " followed by the decoded
\* mapping as Python renders it (single quotes, ": " and ", " separators).
C8_DecodedBodyPrinted ==
    /\ (pc = "exit" /\ LacksRefreshToken) =>
          /\ exit_status = 1
          /\ <<"Error: No refresh token in response">> \in Printed
          /\ \E line \in Printed :
                /\ Len(line) >= 3
                /\ line[1] = "Response: "
                /\ line[2] = "{"
                /\ line[Len(line)] = "}"
                /\ \A i \in DOMAIN line : line[i] # Q
    /\ (pc = "exit" /\ reply.kind = "http" /\ reply.status = 200
        /\ reply.body = <<"{", Q, "access_token", Q, ":", Q, "at", Q, "}">>)
          => <<"Response: ", "{", "'", "access_token", "'", ":", " ",
               "'", "at", "'", "}">> \in Printed

C8_Witness ==
    /\ pc = "exit"
    /\ exit_status = 1
    /\ reply.body = <<"{", Q, "access_token", Q, ":", Q, "at", Q, "}">>
    /\ reply.status = 200

(* ---- C9 ---- *)
\* C9: with an empty client id or client secret the run ends with the
\* configuration error and status 1, and nothing was bound, launched or sent.
C9_MissingCredentials ==
    (pc # "start" /\ (~Truthy(client_id) \/ ~Truthy(client_secret))) =>
        /\ pc \in {"check_credentials", "exit"}
        /\ server = "none"
        /\ events = <<"credentials">>
        /\ handled = <<>>
        /\ posted = <<>>
        /\ pc = "exit" =>
              /\ exit_status = 1
              /\ <<"Error: Missing client ID or secret">> \in Printed

C9_Witness ==
    /\ pc = "exit"
    /\ exit_status = 1
    /\ client_id = PyStr(<<>>)
    /\ Truthy(client_secret)

(* ---- C10 ---- *)
\* C10: credentials are read first; the URL is printed before the browser is
\* launched; the browser is launched before any request is serviced; the
\* exchange happens at most once, after a code was captured and with that
\* code; the refresh token is printed only after the exchange returned.
C10_OrchestratorOrder ==
    /\ events # <<>> => events[1] = "credentials"
    /\ Before("print_url", "browser")
    /\ "print_url" \in {events[i] : i \in DOMAIN events}
          => AuthUrl(client_id.s) \in Printed
    /\ Before("browser", "request")
    /\ Before("request", "post")
    /\ Cardinality({i \in DOMAIN events : events[i] = "post"}) <= 1
    /\ Len(posted) = Cardinality({i \in DOMAIN events : events[i] = "post"})
    /\ \A i \in DOMAIN posted :
          /\ responses[Len(responses)].status = 200
          /\ posted[i].code = PyStr(<<parse_qs(handled[Len(handled)].query)["code"][1]>>)
    /\ Before("post", "print_token")
    /\ "print_token" \in {events[i] : i \in DOMAIN events} => reply.kind = "http"

C10_Witness ==
    /\ pc = "exit"
    /\ events[Len(events)] = "print_token"
    /\ Len(handled) = 2

====
